---- MODULE Spec2Model ----
(***************************************************************************)
(* A model of rust_mqtt_bridge (src/main.rs): the topic matcher, the       *)
(* router, the per-connection Listener threads, the shared mpsc channel    *)
(* and the Emitter loop that Bridge::start runs on the main thread.        *)
(*                                                                         *)
(* A textual topic (a Rust String) is a sequence of one-character strings; *)
(* a Topic is a record [path |-> sequence of segments], each segment again *)
(* a sequence of characters, as produced by Topic::from (split on "/").    *)
(***************************************************************************)
EXTENDS Integers, Sequences, FiniteSets, TLC

\* The number of events (notifications, stream ends) the connections deliver
\* in one run.
MaxEvents == 3

\* ------------------------------------------------------------------ text

Slash == "/"

\* A pattern segment of exactly "#" / exactly "+".
Hash == <<"#">>

Plus == <<"+">>

\* The QoS levels of rumqtt.
QoS == {"AtMostOnce", "AtLeastOnce", "ExactlyOnce"}

\* s.split("/"): the segments between the separators; a string without a
\* separator (the empty string too) is one segment.
RECURSIVE Split(_)
Split(s) ==
    IF \A k \in 1..Len(s) : s[k] # Slash
    THEN <<s>>
    ELSE LET k == CHOOSE k \in 1..Len(s) :
                      /\ s[k] = Slash
                      /\ \A m \in 1..(k - 1) : s[m] # Slash
         IN  <<SubSeq(s, 1, k - 1)>> \o Split(SubSeq(s, k + 1, Len(s)))

\* path.join("/")
RECURSIVE Join(_)
Join(path) ==
    IF path = <<>> THEN <<>>
    ELSE IF Len(path) = 1 THEN path[1]
    ELSE path[1] \o <<Slash>> \o Join(Tail(path))

\* impl From<&str> for Topic
TopicFrom(s) == [path |-> Split(s)]

\* Topic::to_string
TopicToString(topic) == Join(topic.path)

\* ------------------------------------------------------------- matching

\* enum TopicCompare, and the outcome of a Rust index or slice out of range
\* (a panic of the calling thread).
Mismatch == [kind |-> "Mismatch"]

Match(additional_path) == [kind |-> "Match", additional_path |-> additional_path]

Fault == [kind |-> "Fault"]

\* The loop of Topic::accepts from pattern position i (1-based; Rust's index
\* is i - 1). other.path[i-1..] panics when i - 1 > len; other.path[i-1]
\* panics when i - 1 >= len and is only evaluated when part != "+".
RECURSIVE AcceptsFrom(_, _, _)
AcceptsFrom(self, other, i) ==
    IF i > Len(self.path)
    THEN IF Len(self.path) = Len(other.path) THEN Match(<<>>) ELSE Mismatch
    ELSE LET part == self.path[i]
         IN  IF part = Hash
             THEN IF i - 1 > Len(other.path)
                  THEN Fault
                  ELSE Match(SubSeq(other.path, i, Len(other.path)))
             ELSE IF part # Plus /\ i > Len(other.path)
             THEN Fault
             ELSE IF part # Plus /\ part # other.path[i]
             THEN Mismatch
             ELSE AcceptsFrom(self, other, i + 1)

\* A matcher whose "#" leaves out the first of the remaining segments.
accepts_hash_skips_one(self, other) ==
    LET cmp == AcceptsFrom(self, other, 1)
    IN  IF cmp.kind = "Match" /\ cmp.additional_path # <<>>
        THEN Match(Tail(cmp.additional_path))
        ELSE cmp

\* A matcher whose "+" does not accept an empty segment.
accepts_plus_nonempty(self, other) ==
    IF \E k \in 1..Len(self.path) :
          k <= Len(other.path) /\ self.path[k] = Plus /\ other.path[k] = <<>>
    THEN Mismatch
    ELSE AcceptsFrom(self, other, 1)

\* A matcher that takes "#" as a wildcard only in the last position.
accepts_hash_last_only(self, other) ==
    IF \E k \in 1..(Len(self.path) - 1) : self.path[k] = Hash
    THEN Mismatch
    ELSE AcceptsFrom(self, other, 1)

\* Topic::accepts
accepts(self, other) == AcceptsFrom(self, other, 1)

\* -------------------------------------------------------------- routing

\* A router that puts the absorbed suffix in front of the destination topic.
ResolveDestsSuffixFirst(dests, additional_path) ==
    [k \in 1..Len(dests) |->
        [topic     |-> [path |-> additional_path \o dests[k].topic.path],
         client_id |-> dests[k].client_id,
         qos       |-> dests[k].qos]]

\* The inner loop of route_packet: one resolved Destination per destination
\* of a matching route, its topic followed by the absorbed suffix.
ResolveDests(dests, additional_path) ==
    [k \in 1..Len(dests) |->
        [topic     |-> [path |-> dests[k].topic.path \o additional_path],
         client_id |-> dests[k].client_id,
         qos       |-> dests[k].qos]]

\* The outer loop of route_packet from route r on: the accumulated
\* destinations, or Fault when a call of accepts panics.
RECURSIVE RouteFrom(_, _, _, _)
RouteFrom(routes, in_topic, r, destinations) ==
    IF r > Len(routes) THEN [kind |-> "Done", destinations |-> destinations]
    ELSE LET cmp == accepts(routes[r].source_topic, in_topic)
         IN  IF cmp.kind = "Fault" THEN Fault
             ELSE IF cmp.kind = "Mismatch"
             THEN RouteFrom(routes, in_topic, r + 1, destinations)
             ELSE RouteFrom(routes, in_topic, r + 1,
                      destinations \o ResolveDests(routes[r].dests, cmp.additional_path))

\* A router that stops at the first matching route.
RECURSIVE RouteFirstMatch(_, _, _)
RouteFirstMatch(routes, in_topic, r) ==
    IF r > Len(routes) THEN [kind |-> "Done", destinations |-> <<>>]
    ELSE LET cmp == accepts(routes[r].source_topic, in_topic)
         IN  IF cmp.kind = "Fault" THEN Fault
             ELSE IF cmp.kind = "Mismatch" THEN RouteFirstMatch(routes, in_topic, r + 1)
             ELSE [kind |-> "Done",
                   destinations |-> ResolveDests(routes[r].dests, cmp.additional_path)]

route_packet_first_match(routes, topic_name, payload) ==
    LET acc == RouteFirstMatch(routes, TopicFrom(topic_name), 1)
    IN  IF acc.kind = "Fault" THEN Fault
        ELSE IF Len(acc.destinations) > 0
        THEN [kind |-> "Some",
              forward |-> [destinations |-> acc.destinations, payload |-> payload]]
        ELSE [kind |-> "None"]

\* BasicRouter::route_packet: Some(PayloadForward), None, or the panic of
\* the calling thread.
route_packet(routes, topic_name, payload) ==
    LET acc == RouteFrom(routes, TopicFrom(topic_name), 1, <<>>)
    IN  IF acc.kind = "Fault" THEN Fault
        ELSE IF Len(acc.destinations) > 0
        THEN [kind |-> "Some",
              forward |-> [destinations |-> acc.destinations, payload |-> payload]]
        ELSE [kind |-> "None"]

\* -------------------------------------------------------- configuration

\* Destination { topic, client_id, qos }
Destination(topic, client_id, qos) ==
    [topic |-> TopicFrom(topic), client_id |-> client_id, qos |-> qos]

\* BasicRoute { source_topic, dests }
BasicRoute(source_topic, dests) ==
    [source_topic |-> TopicFrom(source_topic), dests |-> dests]

\* The BridgeConfiguration of main(): three connections, one route on
\* connection 0, "/test1/input/#" to "/test2/output/test1" on connection 1
\* and "/test3/output/test1" on connection 2. routes[i + 1] is conf.routes[i].
MainConf ==
    [n |-> 3,
     routes |-> <<
        <<BasicRoute(<<"/", "t", "e", "s", "t", "1", "/", "i", "n", "p", "u", "t", "/", "#">>,
            <<Destination(<<"/", "t", "e", "s", "t", "2", "/", "o", "u", "t", "p", "u", "t",
                            "/", "t", "e", "s", "t", "1">>, 1, "AtLeastOnce"),
              Destination(<<"/", "t", "e", "s", "t", "3", "/", "o", "u", "t", "p", "u", "t",
                            "/", "t", "e", "s", "t", "1">>, 2, "AtLeastOnce")>>)>>,
        <<>>,
        <<>> >>]

\* A BridgeConfiguration with two routes on connection 0 that can match the
\* same topic and a route back from connection 1:
\*   0: "a/#" -> (1, "x", AtMostOnce)
\*   0: "a/b" -> (1, "y/z", ExactlyOnce), (0, "w", AtLeastOnce)
\*   1: "+/b" -> (0, "v", AtLeastOnce)
FanConf ==
    [n |-> 2,
     routes |-> <<
        <<BasicRoute(<<"a", "/", "#">>, <<Destination(<<"x">>, 1, "AtMostOnce")>>),
          BasicRoute(<<"a", "/", "b">>, <<Destination(<<"y", "/", "z">>, 1, "ExactlyOnce"),
                                          Destination(<<"w">>, 0, "AtLeastOnce")>>)>>,
        <<BasicRoute(<<"+", "/", "b">>, <<Destination(<<"v">>, 0, "AtLeastOnce")>>)>> >>]

\* A BridgeConfiguration whose second destination names connection 2 of two:
\* Bridge::start takes any BridgeConfiguration and client_id is any u16.
\*   0: "a/#" -> (1, "x", AtLeastOnce), (2, "y", AtMostOnce), (0, "w", AtLeastOnce)
StrayConf ==
    [n |-> 2,
     routes |-> <<
        <<BasicRoute(<<"a", "/", "#">>, <<Destination(<<"x">>, 1, "AtLeastOnce"),
                                          Destination(<<"y">>, 2, "AtMostOnce"),
                                          Destination(<<"w">>, 0, "AtLeastOnce")>>)>>,
        <<>> >>]

\* The configurations Bridge::start is run with.
Configs == {MainConf, FanConf, StrayConf}

\* The ClientIds of a configuration: the indices of its clients vector.
ClientIds(c) == 0..(c.n - 1)

\* ---------------------------------------------------------------- state

VARIABLES
    conf,        \* the BridgeConfiguration Bridge::start was called with
    mpc,         \* the main thread: "build", "wire", "emit", "panicked", "returned", "exited"
    cause,       \* why the main thread panicked: "none", "connect", "subscribe", "index"
    wi,          \* Bridge::start: the connection being wired (i of the for_each)
    wj,          \* Bridge::start: the next route of conf.routes[i] to subscribe
    lst,         \* per connection, its Listener thread: "unstarted", "running", "ended", "panicked"
    inbox,       \* per connection, the notifications waiting in its Receiver<Notification>
    rcvd,        \* per connection, the notifications its Listener has taken, in order
    queue,       \* the mpsc channel from the Listeners to the Emitter
    epc,         \* Emitters::run: "idle", "recv", "dest", "wait"
    cur,         \* Emitters::run: the PayloadForward being dispatched (forward)
    di,          \* Emitters::run: the next destination of cur
    calls,       \* the publish calls issued so far, in order, with their results
    sendFailed,  \* the (connection, message) pairs whose send was reported as failed
    events,      \* the number of events the connections have delivered
    dequeued,    \* the PayloadForwards the Emitter has taken off the channel, in order
    call,        \* a call of Topic::accepts or route_packet on its own: its arguments
    ret          \* what that call returned

vars == <<conf, mpc, cause, wi, wj, lst, inbox, rcvd, queue, epc, cur, di, calls,
          sendFailed, events, dequeued, call, ret>>

\* No call on its own is made, and none has returned.
NoCall == [fn |-> "none"]

NotReturned == [kind |-> "NotReturned"]

\* No PayloadForward is being dispatched.
NoForward == [destinations |-> <<>>, payload |-> "", src |-> 0, seq |-> 0]

Init ==
    /\ conf \in Configs
    /\ mpc = "build"
    /\ cause = "none"
    /\ wi = 0
    /\ wj = 1
    /\ lst = [i \in ClientIds(conf) |-> "unstarted"]
    /\ inbox = [i \in ClientIds(conf) |-> <<>>]
    /\ rcvd = [i \in ClientIds(conf) |-> <<>>]
    /\ queue = <<>>
    /\ epc = "idle"
    /\ cur = NoForward
    /\ di = 1
    /\ calls = <<>>
    /\ sendFailed = {}
    /\ events = 0
    /\ dequeued = <<>>
    /\ call = NoCall
    /\ ret = NotReturned

\* The mpsc Receiver is a local of Bridge::start, then a field of Emitters:
\* it is dropped when the main thread unwinds or returns.
ReceiverAlive == mpc \in {"build", "wire", "emit"}

\* A Bridge::start that drops the original Sender before Emitters::run: only
\* the clones of the running Listeners are left.
SendersAliveClonesOnly ==
    (IF mpc \in {"build", "wire"} THEN 1 ELSE 0)
        + Cardinality({i \in ClientIds(conf) : lst[i] = "running"})

\* The number of mpsc Senders: the original is a local of Bridge::start for
\* as long as the call lasts, each running Listener owns a clone.
SendersAlive ==
    (IF mpc \in {"build", "wire", "emit"} THEN 1 ELSE 0)
        + Cardinality({i \in ClientIds(conf) : lst[i] = "running"})

\* ---------------------------------------------------------- Bridge::start

\* The main thread after the MqttClient::start calls: on with the wiring, or
\* unwrap_or_else(|e| panic!(..)) when one of them failed.
AfterConnect(ok) == IF ok THEN "wire" ELSE "panicked"

\* A Bridge::start that goes on after a failed subscribe.
AfterSubscribeIgnoreErr(ok) == "wire"

\* The main thread after clients[i].subscribe: Ok(()) => (), Err(e) => panic!.
AfterSubscribe(ok) == IF ok THEN "wire" ELSE "panicked"

\* Build MQTT clients: every MqttClient::start succeeds, or one fails.
BuildClients ==
    /\ mpc = "build"
    /\ \E ok \in BOOLEAN :
          /\ mpc' = AfterConnect(ok)
          /\ cause' = IF ok THEN cause ELSE "connect"
    /\ UNCHANGED <<call, ret, dequeued, conf, wi, wj, lst, inbox, rcvd, queue, epc, cur, di, calls,
                   sendFailed, events>>

\* clients[i].subscribe(route.source_topic.to_string(), QoS::AtLeastOnce)
\* for the next route of connection i; the for_each goes on to the next route
\* unless the thread panicked.
Subscribe ==
    /\ mpc = "wire"
    /\ wi < conf.n
    /\ wj <= Len(conf.routes[wi + 1])
    /\ \E ok \in BOOLEAN :
          /\ mpc' = AfterSubscribe(ok)
          /\ cause' = IF ok THEN cause ELSE "subscribe"
    /\ wj' = IF mpc' = "wire" THEN wj + 1 ELSE wj
    /\ UNCHANGED <<call, ret, dequeued, conf, wi, lst, inbox, rcvd, queue, epc, cur, di, calls,
                   sendFailed, events>>

\* Listener { router, receiver, emitters_channel }.start() for connection i,
\* once its routes are subscribed.
StartListener ==
    /\ mpc = "wire"
    /\ wi < conf.n
    /\ wj > Len(conf.routes[wi + 1])
    /\ lst' = [lst EXCEPT ![wi] = "running"]
    /\ wi' = wi + 1
    /\ wj' = 1
    /\ UNCHANGED <<call, ret, dequeued, conf, mpc, cause, inbox, rcvd, queue, epc, cur, di, calls,
                   sendFailed, events>>

\* Emitters { listeners_channel, clients }.run() on the main thread, after
\* the last connection is wired.
StartEmitter ==
    /\ mpc = "wire"
    /\ wi = conf.n
    /\ mpc' = "emit"
    /\ epc' = "recv"
    /\ UNCHANGED <<call, ret, dequeued, conf, cause, wi, wj, lst, inbox, rcvd, queue, cur, di, calls,
                   sendFailed, events>>

\* The process ends when the main thread has panicked or returned from main.
ProcessExit ==
    /\ mpc \in {"panicked", "returned"}
    /\ mpc' = "exited"
    /\ UNCHANGED <<call, ret, dequeued, conf, cause, wi, wj, lst, inbox, rcvd, queue, epc, cur, di, calls,
                   sendFailed, events>>

\* ---------------------------------------------------------- connections

\* Notification::Publish(publish) with its topic_name and payload.
PublishNotif(topic_name, payload) ==
    [kind |-> "Publish", topic_name |-> topic_name, payload |-> payload]

\* Any other Notification (PubAck, Reconnection, ...).
OtherNotif == [kind |-> "Other"]

\* The end of a connection's notification stream.
StreamEnd == [kind |-> "End"]

\* The messages the brokers hold for the subscribers under each
\* configuration.
Messages(c) ==
    IF c = MainConf
    THEN {PublishNotif(<<"/", "t", "e", "s", "t", "1", "/", "i", "n", "p", "u", "t",
                         "/", "f", "o", "o">>, "hi"),
          PublishNotif(<<"/", "t", "e", "s", "t", "1", "/", "i", "n", "p", "u", "t",
                         "/", "f", "o", "o">>, "yo"),
          PublishNotif(<<"/", "t", "e", "s", "t", "1", "/", "o", "t", "h", "e", "r">>, "hi")}
    ELSE {PublishNotif(<<"a">>, "hi"),
          PublishNotif(<<"a", "/", "b">>, "hi"),
          PublishNotif(<<"a", "/", "b", "/", "c">>, "yo")}

\* Connection i has subscribed to at least one topic: the for_each of
\* Bridge::start is past the first route of conf.routes[i].
Subscribed(i) == wi > i \/ (wi = i /\ wj > 1)

\* What connection i can deliver next: a message once it has subscribed, any
\* other notification, or the end of the stream.
Notifications(i) ==
    (IF Subscribed(i) THEN Messages(conf) ELSE {}) \cup {OtherNotif, StreamEnd}

\* Connection i's stream is still open: no end of stream was delivered.
StreamOpen(i) ==
    /\ lst[i] \in {"unstarted", "running"}
    /\ \A k \in 1..Len(inbox[i]) : inbox[i][k].kind # "End"

\* The client of connection i, started by MqttClient::start, puts a
\* notification (or the end of the stream) into its Receiver.
Deliver(i, notif) ==
    /\ mpc \in {"wire", "emit"}
    /\ events < MaxEvents
    /\ StreamOpen(i)
    /\ inbox' = [inbox EXCEPT ![i] = Append(@, notif)]
    /\ events' = events + 1
    /\ UNCHANGED <<call, ret, dequeued, conf, mpc, cause, wi, wj, lst, rcvd, queue, epc, cur, di, calls,
                   sendFailed>>

\* ------------------------------------------------------------- Listener

\* A channel that hands out the newest value first.
EnqueueFront(q, forward) == <<forward>> \o q

\* mpsc::Sender::send on the unbounded channel of mpsc::channel(): the value
\* goes to the back of the queue.
Enqueue(q, forward) == Append(q, forward)

\* A bounded channel (mpsc::sync_channel(1)): send waits while it is full.
SendWouldBlockBounded(q) == Len(q) >= 1

\* mpsc::channel() is unbounded: send never waits for room.
SendWouldBlock(q) == FALSE

\* A Listener that unwraps the result of send.
AfterSendErrorUnwrap == "panicked"

\* The Listener after send returned Err: println!, and on with the loop.
AfterSendError == "running"

\* The notification Listener i is about to take.
NextNotif(i) == Head(inbox[i])

\* Listeners that all hold the router of connection 0.
RoutedByFirstTable(i) ==
    route_packet(conf.routes[1], NextNotif(i).topic_name, NextNotif(i).payload)

\* What the router of Listener i makes of that notification.
Routed(i) ==
    route_packet(conf.routes[i + 1], NextNotif(i).topic_name, NextNotif(i).payload)

\* Listener i can take the next item of self.receiver.iter().
ListenerReady(i) ==
    /\ mpc # "exited"
    /\ lst[i] = "running"
    /\ inbox[i] # <<>>

\* Listener i takes the notification from its inbox.
Take(i) ==
    /\ inbox' = [inbox EXCEPT ![i] = Tail(@)]
    /\ rcvd' = [rcvd EXCEPT ![i] = Append(@, NextNotif(i))]

\* The turn of the loop that Listener i can take, by the notification
\* pending, what the router makes of it and the state of the channel. A
\* Publish that the router forwards is sent on the channel:
CanForward(i) ==
    /\ ListenerReady(i)
    /\ NextNotif(i).kind = "Publish"
    /\ Routed(i).kind = "Some"
    /\ ReceiverAlive
    /\ ~SendWouldBlock(queue)

\* or, with the Receiver of the channel dropped, send returns Err:
CanFailSend(i) ==
    /\ ListenerReady(i)
    /\ NextNotif(i).kind = "Publish"
    /\ Routed(i).kind = "Some"
    /\ ~ReceiverAlive

\* route_packet returns None:
CanDrop(i) ==
    /\ ListenerReady(i)
    /\ NextNotif(i).kind = "Publish"
    /\ Routed(i).kind = "None"

\* route_packet panics:
CanPanic(i) ==
    /\ ListenerReady(i)
    /\ NextNotif(i).kind = "Publish"
    /\ Routed(i).kind = "Fault"

\* any other notification:
CanIgnore(i) == ListenerReady(i) /\ NextNotif(i).kind = "Other"

\* the end of the stream:
CanEnd(i) == ListenerReady(i) /\ NextNotif(i).kind = "End"

\* Listener i can take a turn of its loop: ENABLED ListenerRun(i).
ListenerCanStep(i) ==
    \/ CanForward(i)
    \/ CanFailSend(i)
    \/ CanDrop(i)
    \/ CanPanic(i)
    \/ CanIgnore(i)
    \/ CanEnd(i)

\* A Publish that the router forwards, sent on the channel.
ListenerForward(i) ==
    /\ CanForward(i)
    /\ Take(i)
    /\ queue' = Enqueue(queue, [destinations |-> Routed(i).forward.destinations,
                                payload      |-> Routed(i).forward.payload,
                                src          |-> i,
                                seq          |-> Len(rcvd[i]) + 1])
    /\ UNCHANGED <<call, ret, dequeued, conf, mpc, cause, wi, wj, lst, epc, cur, di, calls, sendFailed, events>>

\* A Publish that the router forwards, with the Receiver of the channel
\* dropped: send returns Err, which is printed.
ListenerSendError(i) ==
    /\ CanFailSend(i)
    /\ Take(i)
    /\ sendFailed' = sendFailed \cup {<<i, Len(rcvd[i]) + 1>>}
    /\ lst' = [lst EXCEPT ![i] = AfterSendError]
    /\ UNCHANGED <<call, ret, dequeued, conf, mpc, cause, wi, wj, queue, epc, cur, di, calls, events>>

\* A Publish for which route_packet returns None.
ListenerNoRoute(i) ==
    /\ CanDrop(i)
    /\ Take(i)
    /\ UNCHANGED <<call, ret, dequeued, conf, mpc, cause, wi, wj, lst, queue, epc, cur, di, calls,
                   sendFailed, events>>

\* A Publish for which route_packet panics: the Listener thread unwinds.
ListenerRoutePanic(i) ==
    /\ CanPanic(i)
    /\ Take(i)
    /\ lst' = [lst EXCEPT ![i] = "panicked"]
    /\ UNCHANGED <<call, ret, dequeued, conf, mpc, cause, wi, wj, queue, epc, cur, di, calls,
                   sendFailed, events>>

\* Any other notification: _ => ().
ListenerIgnore(i) ==
    /\ CanIgnore(i)
    /\ Take(i)
    /\ UNCHANGED <<call, ret, dequeued, conf, mpc, cause, wi, wj, lst, queue, epc, cur, di, calls,
                   sendFailed, events>>

\* The stream ended: the for loop and the thread end.
ListenerEnd(i) ==
    /\ CanEnd(i)
    /\ inbox' = [inbox EXCEPT ![i] = Tail(@)]
    /\ lst' = [lst EXCEPT ![i] = "ended"]
    /\ UNCHANGED <<call, ret, dequeued, conf, mpc, cause, wi, wj, rcvd, queue, epc, cur, di, calls,
                   sendFailed, events>>

\* Listener::run: one turn of the loop of Listener i.
ListenerRun(i) ==
    \/ ListenerForward(i)
    \/ ListenerSendError(i)
    \/ ListenerNoRoute(i)
    \/ ListenerRoutePanic(i)
    \/ ListenerIgnore(i)
    \/ ListenerEnd(i)

\* -------------------------------------------------------------- Emitter

\* An Emitter that publishes every destination with the first one's client,
\* topic and QoS.
PublishArgsFirstDest(forward, k) ==
    LET dest == forward.destinations[1]
    IN  [client_id |-> dest.client_id,
         topic     |-> Join(dest.topic.path),
         qos       |-> dest.qos,
         retain    |-> FALSE,
         payload   |-> forward.payload]

\* The arguments of self.clients[dest.client_id].publish(..) for destination
\* k of a PayloadForward: the client, dest.topic.to_string(), dest.qos,
\* retain = false, &forward.payload[..].
PublishArgs(forward, k) ==
    LET dest == forward.destinations[k]
    IN  [client_id |-> dest.client_id,
         topic     |-> TopicToString(dest.topic),
         qos       |-> dest.qos,
         retain    |-> FALSE,
         payload   |-> forward.payload]

\* An Emitter that does not wait for publish to return.
AfterCallNoWait == "dest"

\* Emitters::run while publish is being called: the thread waits for the
\* call to return.
AfterCall == "wait"

\* An Emitter that gives up at the first failed publish.
AfterPublishStopOnErr(res, more) ==
    IF res = "Err" THEN "idle" ELSE IF more THEN "dest" ELSE "recv"

\* An Emitter that goes on to the next request after every publish.
AfterPublishNextRequest(res, more) == "recv"

\* Emitters::run after publish returned res: Err is printed, and the loops
\* go on with the next destination, or with the next PayloadForward.
AfterPublish(res, more) == IF more THEN "dest" ELSE "recv"

\* The next item of self.listeners_channel.iter(): the front of the queue;
\* with the queue empty the thread waits, unless every Sender is dropped,
\* which ends the loop and Bridge::start.
EmitterRecv ==
    /\ mpc = "emit"
    /\ epc = "recv"
    /\ IF queue # <<>>
       THEN /\ cur' = Head(queue)
            /\ queue' = Tail(queue)
            /\ di' = 1
            /\ epc' = IF Len(Head(queue).destinations) > 0 THEN "dest" ELSE "recv"
            /\ dequeued' = Append(dequeued, Head(queue))
            /\ UNCHANGED mpc
       ELSE /\ SendersAlive = 0
            /\ mpc' = "returned"
            /\ epc' = "idle"
            /\ UNCHANGED <<cur, queue, di, dequeued>>
    /\ UNCHANGED <<call, ret, conf, cause, wi, wj, lst, inbox, rcvd, calls, sendFailed, events>>

\* self.clients[dest.client_id as usize].publish(..) is called for the next
\* destination, whose client_id indexes the clients vector.
EmitterPublishCall ==
    /\ mpc = "emit"
    /\ epc = "dest"
    /\ cur.destinations[di].client_id \in ClientIds(conf)
    /\ calls' = Append(calls, [args |-> PublishArgs(cur, di),
                               src  |-> cur.src,
                               seq  |-> cur.seq,
                               idx  |-> di,
                               by   |-> "main",
                               res  |-> "pending"])
    /\ epc' = AfterCall
    /\ UNCHANGED <<call, ret, dequeued, conf, mpc, cause, wi, wj, lst, inbox, rcvd, queue, cur, di,
                   sendFailed, events>>

\* self.clients[dest.client_id as usize] with client_id beyond the clients
\* vector: the index panics, and the main thread unwinds.
EmitterIndexPanic ==
    /\ mpc = "emit"
    /\ epc = "dest"
    /\ cur.destinations[di].client_id \notin ClientIds(conf)
    /\ mpc' = "panicked"
    /\ cause' = "index"
    /\ UNCHANGED <<call, ret, dequeued, conf, wi, wj, lst, inbox, rcvd, queue, epc, cur, di, calls,
                   sendFailed, events>>

\* publish returns Ok or Err.
EmitterPublishReturn(res) ==
    /\ mpc = "emit"
    /\ epc = "wait"
    /\ calls' = [calls EXCEPT ![Len(calls)].res = res]
    /\ di' = di + 1
    /\ epc' = AfterPublish(res, di + 1 <= Len(cur.destinations))
    /\ UNCHANGED <<call, ret, dequeued, conf, mpc, cause, wi, wj, lst, inbox, rcvd, queue, cur,
                   sendFailed, events>>

\* ------------------------------------------------------------ the program

Next ==
    \/ BuildClients
    \/ Subscribe
    \/ StartListener
    \/ StartEmitter
    \/ ProcessExit
    \/ \E i \in ClientIds(conf) : \E notif \in Notifications(i) : Deliver(i, notif)
    \/ \E i \in ClientIds(conf) : ListenerRun(i)
    \/ EmitterRecv
    \/ EmitterPublishCall
    \/ EmitterIndexPanic
    \/ \E res \in {"Ok", "Err"} : EmitterPublishReturn(res)

Spec == Init /\ [][Next]_vars

\* ------------------------------------------- the matcher and the router

\* The longest pattern or candidate (in segments) and the longest routing
\* table (in routes) of the calls made on their own.
MaxPath == 3

MaxRoutes == 2

\* The segments of patterns and of inbound topics: literals, the empty
\* segment of a leading, trailing or doubled "/", and for patterns "+", "#".
TopicSegs == {<<"a">>, <<"b">>, <<>>}

PatternSegs == TopicSegs \cup {Plus, Hash}

\* The paths of 1 to n segments: Topic::from never yields an empty path.
Paths(segs, n) == UNION {[1..k -> segs] : k \in 1..n}

\* The calls accepts(self, other), with the examples of the specification.
AcceptsCalls ==
    {[fn |-> "accepts", self |-> [path |-> p], other |-> [path |-> c]] :
        p \in Paths(PatternSegs, MaxPath), c \in Paths(TopicSegs, MaxPath)}
    \cup
    {[fn |-> "accepts", self |-> TopicFrom(x[1]), other |-> TopicFrom(x[2])] :
        x \in {<<<<"a", "/", "#">>, <<"a", "/", "b", "/", "c">>>>,
               <<<<"a", "/", "+", "/", "c">>, <<"a", "/", "b", "/", "c">>>>,
               <<<<"a", "/", "+", "/", "c">>, <<"a", "/", "b", "/", "d">>>>,
               <<<<"a", "/", "#", "/", "z">>, <<"a", "/", "b", "/", "c">>>>}}

\* The routes of the routing tables.
TableRoutes ==
    {BasicRoute(p, d) :
        p \in {<<"a", "/", "#">>, <<"a", "/", "b">>, <<"+", "/", "b">>,
               <<"a", "/", "+">>, <<"#">>},
        d \in {<<Destination(<<"x">>, 1, "AtMostOnce")>>,
               <<Destination(<<"y", "/", "z">>, 0, "ExactlyOnce"),
                 Destination(<<"w">>, 1, "AtLeastOnce")>>}}

\* The calls route_packet(routes, topic_name, payload), with the example of
\* the specification: "a/#" to "b/out", inbound "a/x/y".
RouteCalls ==
    {[fn |-> "route_packet", routes |-> t, topic_name |-> Join(c), payload |-> pl] :
        t \in UNION {[1..k -> TableRoutes] : k \in 0..MaxRoutes},
        c \in Paths(TopicSegs, MaxPath),
        pl \in {"hi", "yo"}}
    \cup
    {[fn |-> "route_packet",
      routes |-> <<BasicRoute(<<"a", "/", "#">>,
                      <<Destination(<<"b", "/", "o", "u", "t">>, 1, "AtLeastOnce")>>)>>,
      topic_name |-> <<"a", "/", "x", "/", "y">>,
      payload |-> "hi"]}

\* The Bridge is not started; one call of the matcher or of the router is
\* about to be made.
PureInit ==
    /\ conf = MainConf
    /\ mpc = "build"
    /\ cause = "none"
    /\ wi = 0
    /\ wj = 1
    /\ lst = [i \in ClientIds(conf) |-> "unstarted"]
    /\ inbox = [i \in ClientIds(conf) |-> <<>>]
    /\ rcvd = [i \in ClientIds(conf) |-> <<>>]
    /\ queue = <<>>
    /\ epc = "idle"
    /\ cur = NoForward
    /\ di = 1
    /\ calls = <<>>
    /\ sendFailed = {}
    /\ events = 0
    /\ dequeued = <<>>
    /\ call \in AcceptsCalls \cup RouteCalls
    /\ ret = NotReturned

\* self.accepts(other) returns.
CallAccepts ==
    /\ call.fn = "accepts"
    /\ ret = NotReturned
    /\ ret' = accepts(call.self, call.other)
    /\ UNCHANGED <<call, dequeued, conf, mpc, cause, wi, wj, lst, inbox, rcvd, queue,
                   epc, cur, di, calls, sendFailed, events>>

\* self.route_packet(incoming_packet) returns.
CallRoutePacket ==
    /\ call.fn = "route_packet"
    /\ ret = NotReturned
    /\ ret' = route_packet(call.routes, call.topic_name, call.payload)
    /\ UNCHANGED <<call, dequeued, conf, mpc, cause, wi, wj, lst, inbox, rcvd, queue,
                   epc, cur, di, calls, sendFailed, events>>

PureNext == CallAccepts \/ CallRoutePacket

PureSpec == PureInit /\ [][PureNext]_vars

\* --------------------------------------------------------------- claims

\* What the router of connection src owes for the message it took as its
\* seq-th notification.
Owed(src, seq) ==
    route_packet(conf.routes[src + 1], rcvd[src][seq].topic_name, rcvd[src][seq].payload)

\* The Bridge is past its startup: Emitters::run was called.
StartupComplete == epc # "idle" \/ cause = "index" \/ mpc = "returned"

\* The topic names of the example of main().
TopicFoo == <<"/", "t", "e", "s", "t", "1", "/", "i", "n", "p", "u", "t", "/", "f", "o", "o">>

OutFoo2 ==
    <<"/", "t", "e", "s", "t", "2", "/", "o", "u", "t", "p", "u", "t",
      "/", "t", "e", "s", "t", "1", "/", "f", "o", "o">>

OutFoo3 ==
    <<"/", "t", "e", "s", "t", "3", "/", "o", "u", "t", "p", "u", "t",
      "/", "t", "e", "s", "t", "1", "/", "f", "o", "o">>

\* C1: every publish call issued is owed to an inbound message: it is call
\* idx of the request that the Listener of connection src produced by routing
\* the seq-th notification it received, a Publish, and it carries that
\* destination's connection, resolved topic and QoS, retain = false and the
\* message's payload; no (request, destination) pair is published twice; and
\* under the configuration of main() a message "/test1/input/foo" is published
\* as "/test2/output/test1/foo" on connection 1 and "/test3/output/test1/foo"
\* on connection 2 at AtLeastOnce, and nowhere else.
C1_PublishesAreOwed ==
    /\ \A k \in 1..Len(calls) :
          LET e == calls[k]
          IN  /\ e.src \in ClientIds(conf)
              /\ e.seq \in 1..Len(rcvd[e.src])
              /\ rcvd[e.src][e.seq].kind = "Publish"
              /\ Owed(e.src, e.seq).kind = "Some"
              /\ e.idx \in 1..Len(Owed(e.src, e.seq).forward.destinations)
              /\ LET d == Owed(e.src, e.seq).forward.destinations[e.idx]
                 IN  e.args = [client_id |-> d.client_id,
                               topic     |-> Join(d.topic.path),
                               qos       |-> d.qos,
                               retain    |-> FALSE,
                               payload   |-> rcvd[e.src][e.seq].payload]
    /\ \A k, m \in 1..Len(calls) :
          k # m => <<calls[k].src, calls[k].seq, calls[k].idx>>
                       # <<calls[m].src, calls[m].seq, calls[m].idx>>
    /\ conf = MainConf =>
          \A k \in 1..Len(calls) :
             LET e == calls[k]
             IN  /\ e.src = 0
                 /\ rcvd[0][e.seq].topic_name = TopicFoo
                 /\ e.idx \in {1, 2}
                 /\ e.args = [client_id |-> e.idx,
                              topic     |-> IF e.idx = 1 THEN OutFoo2 ELSE OutFoo3,
                              qos       |-> "AtLeastOnce",
                              retain    |-> FALSE,
                              payload   |-> rcvd[0][e.seq].payload]

\* C1 witness: under the configuration of main(), connection 0 received the
\* one message "/test1/input/foo" with payload "hi", and the Emitter has
\* issued exactly the two publish calls for it and waits for the next request.
C1_Witness ==
    /\ conf = MainConf
    /\ rcvd[0] = <<PublishNotif(TopicFoo, "hi")>>
    /\ Len(calls) = 2
    /\ calls[1].args.client_id = 1 /\ calls[1].args.topic = OutFoo2
    /\ calls[2].args.client_id = 2 /\ calls[2].args.topic = OutFoo3
    /\ calls[1].args.payload = "hi" /\ calls[2].args.payload = "hi"
    /\ epc = "recv"
    /\ queue = <<>>

\* The main thread has stopped running Emitters::run for good.
EmitterStopped == mpc \in {"panicked", "returned", "exited"}

\* C2: every request a Listener enqueued is dequeued and published to all its
\* destinations once startup has completed. A run in which the Emitter has
\* stopped can publish nothing more, so in such a state no request may be
\* left in the queue and the request being dispatched may have no destination
\* left.
C2_EveryRequestPublished ==
    (StartupComplete /\ EmitterStopped) =>
        /\ queue = <<>>
        /\ di > Len(cur.destinations)

\* C3: per-connection order. The requests of one connection lie in the queue
\* in the order its Listener received their messages, behind the one being
\* dispatched, and the publish calls for an earlier message of a connection
\* all come before those for a later message of the same connection.
C3_PerConnectionOrder ==
    /\ \A k, m \in 1..Len(queue) :
          (k < m /\ queue[k].src = queue[m].src) => queue[k].seq < queue[m].seq
    /\ \A k \in 1..Len(queue) :
          (cur # NoForward /\ queue[k].src = cur.src) => cur.seq < queue[k].seq
    /\ \A k \in 1..Len(calls) : \A m \in 1..Len(queue) :
          calls[k].src = queue[m].src => calls[k].seq < queue[m].seq
    /\ \A k, m \in 1..Len(calls) :
          (k < m /\ calls[k].src = calls[m].src) => calls[k].seq <= calls[m].seq

\* C3 witness: two messages of one connection were both forwarded and
\* published, while a request from another connection went through the queue.
C3_Witness ==
    \E k, m, j \in 1..Len(calls) :
        /\ k < m
        /\ calls[k].src = calls[m].src
        /\ calls[k].seq < calls[m].seq
        /\ calls[j].src # calls[k].src

\* C4: a publish call that returns Err does not stop the Emitter. In the
\* step in which publish returns Err the main thread stays in Emitters::run,
\* and its next position is the next destination of the same request when
\* there is one, and the next request otherwise, exactly as after Ok.
C4_PublishErrorGoesOn ==
    [][(epc = "wait" /\ calls' # calls /\ calls'[Len(calls)].res = "Err") =>
          /\ mpc' = "emit"
          /\ cur' = cur
          /\ queue' = queue
          /\ di' = di + 1
          /\ epc' = IF di < Len(cur.destinations) THEN "dest" ELSE "recv"]_vars

\* C4 witness: a publish call failed, a later destination of the same
\* request was published after it, and so was a request dequeued later.
C4_Witness ==
    \E k, m, j \in 1..Len(calls) :
        /\ calls[k].res = "Err"
        /\ k < m /\ m < j
        /\ <<calls[m].src, calls[m].seq>> = <<calls[k].src, calls[k].seq>>
        /\ <<calls[j].src, calls[j].seq>> # <<calls[k].src, calls[k].seq>>

\* C5: when send fails because the Receiver is gone, the Listener reports
\* the failure and does not panic, and the step changes nothing of any other
\* Listener: its thread, its pending notifications, what it has received.
C5_SendErrorIsReported ==
    [][\A i \in ClientIds(conf) :
          (/\ CanFailSend(i)
           /\ rcvd'[i] # rcvd[i]) =>
              /\ <<i, Len(rcvd[i]) + 1>> \in sendFailed'
              /\ lst'[i] = "running"
              /\ queue' = queue
              /\ \A j \in ClientIds(conf) \ {i} :
                    /\ lst'[j] = lst[j]
                    /\ inbox'[j] = inbox[j]
                    /\ rcvd'[j] = rcvd[j]]_vars

\* C5 witness: a Listener had a send fail and is still running, beside
\* another running Listener.
C5_Witness ==
    \E p \in sendFailed : \E j \in ClientIds(conf) :
        /\ lst[p[1]] = "running"
        /\ j # p[1]
        /\ lst[j] = "running"

\* C6: once the Bridge has started, every Destination of the configured
\* routes names a connection of [0, connection_count), and the Emitter never
\* looks up a connection handle with an index out of range.
C6_ClientIdsInRange ==
    /\ StartupComplete =>
          \A i \in ClientIds(conf) : \A r \in 1..Len(conf.routes[i + 1]) :
             \A k \in 1..Len(conf.routes[i + 1][r].dests) :
                conf.routes[i + 1][r].dests[k].client_id \in ClientIds(conf)
    /\ epc = "dest" => cur.destinations[di].client_id \in ClientIds(conf)
    /\ cause # "index"

\* C7: routing is total. No Listener thread ever faults in its routing call,
\* and the call a running Listener is about to make on a pending message
\* yields Some or None.
C7_RoutingTotal ==
    \A i \in ClientIds(conf) :
        /\ lst[i] # "panicked"
        /\ (ListenerReady(i) /\ NextNotif(i).kind = "Publish") =>
              Routed(i).kind \in {"Some", "None"}

\* C8: a failed connection or subscription at startup ends the process. The
\* main thread is then panicking, with the exit of the process its next step,
\* or the process has exited; Emitters::run was never called and no publish
\* call was issued; and once the process has exited no Listener takes a step,
\* whatever is pending on its connection.
C8_StartupFailureIsFatal ==
    /\ cause \in {"connect", "subscribe"} =>
          /\ mpc \in {"panicked", "exited"}
          /\ mpc = "panicked" => ENABLED ProcessExit
          /\ epc = "idle"
          /\ calls = <<>>
    /\ mpc = "exited" => \A i \in ClientIds(conf) : ~ListenerCanStep(i)

\* C8 witness: a subscription failed after the Listener of an earlier
\* connection was started and had forwarded a message; the process has
\* exited with that Listener's next message pending and nothing published.
C8_Witness ==
    /\ cause = "subscribe"
    /\ mpc = "exited"
    /\ queue # <<>>
    /\ \E i \in ClientIds(conf) :
          /\ lst[i] = "running"
          /\ inbox[i] # <<>>
          /\ Head(inbox[i]).kind = "Publish"

\* The publish calls that have not returned yet.
InProgress == {k \in 1..Len(calls) : calls[k].res = "pending"}

\* C9: the publish calls are serialized through the thread that runs
\* Emitters::run. At most one publish call is in progress, it is the latest
\* one and that thread is waiting for it to return; every call was issued by
\* that thread.
C9_PublishesSerialized ==
    /\ Cardinality(InProgress) <= 1
    /\ \A k \in InProgress : k = Len(calls) /\ epc = "wait" /\ mpc # "build"
    /\ \A k \in 1..Len(calls) : calls[k].by = "main"

\* C9 witness: a publish call is in progress while a Listener has a message
\* pending that its router forwards, after an earlier call has returned.
C9_Witness ==
    /\ Cardinality(InProgress) = 1
    /\ Len(calls) >= 2
    /\ \E i \in ClientIds(conf) :
          /\ ListenerReady(i)
          /\ NextNotif(i).kind = "Publish"
          /\ Routed(i).kind = "Some"

\* C10: a running Listener with a notification pending can always take its
\* next step, whatever the other Listeners, the queue and the Emitter are
\* doing: send does not wait for room in the queue or for the Emitter.
C10_ListenerNeverBlocked ==
    \A i \in ClientIds(conf) : ListenerReady(i) => ListenerCanStep(i)

\* C10 witness: the Emitter has not started and the queue is not empty, one
\* running Listener waits on its empty stream, and another has a message
\* pending that its router forwards.
C10_Witness ==
    /\ mpc = "wire"
    /\ queue # <<>>
    /\ \E i, j \in ClientIds(conf) :
          /\ i # j
          /\ lst[j] = "running"
          /\ inbox[j] = <<>>
          /\ ListenerReady(i)
          /\ NextNotif(i).kind = "Publish"
          /\ Routed(i).kind = "Some"

\* What the Emitter has to publish for a dequeued request: one call per
\* destination, in list order.
CallsFor(forward) ==
    [k \in 1..Len(forward.destinations) |->
        [src  |-> forward.src,
         seq  |-> forward.seq,
         idx  |-> k,
         args |-> [client_id |-> forward.destinations[k].client_id,
                   topic     |-> Join(forward.destinations[k].topic.path),
                   qos       |-> forward.destinations[k].qos,
                   retain    |-> FALSE,
                   payload   |-> forward.payload]]]

\* The calls for a sequence of requests, one request after the other.
RECURSIVE CallsForAll(_)
CallsForAll(forwards) ==
    IF forwards = <<>> THEN <<>>
    ELSE CallsFor(Head(forwards)) \o CallsForAll(Tail(forwards))

\* The publish calls issued so far, without their results.
CallsIssued ==
    [k \in 1..Len(calls) |->
        [src |-> calls[k].src, seq |-> calls[k].seq, idx |-> calls[k].idx,
         args |-> calls[k].args]]

\* C11: the publish calls issued are a prefix of the concatenation, in
\* dequeue order, of the dequeued requests' destination lists in list order,
\* and every request dequeued before the latest one is published in full: no
\* call of a request comes between two calls of another, and destination k of
\* a request is published before destination k + 1.
C11_PublishesFollowDequeueOrder ==
    /\ Len(calls) <= Len(CallsForAll(dequeued))
    /\ CallsIssued = SubSeq(CallsForAll(dequeued), 1, Len(calls))
    /\ dequeued # <<>> =>
          /\ cur = dequeued[Len(dequeued)]
          /\ Len(calls) >= Len(CallsForAll(SubSeq(dequeued, 1, Len(dequeued) - 1)))

\* C11 witness: two requests were dequeued, the first with more than one
\* destination, and both are published in full.
C11_Witness ==
    /\ Len(dequeued) >= 2
    /\ Len(dequeued[1].destinations) >= 2
    /\ Len(calls) = Len(CallsForAll(dequeued))
    /\ epc = "recv"

\* ------------------------------------------------- matching, as specified

\* The position of the first "#" of a pattern p (a path), 0 when it has none.
HashAt(p) ==
    IF \E k \in 1..Len(p) : p[k] = Hash
    THEN CHOOSE k \in 1..Len(p) : p[k] = Hash /\ \A m \in 1..(k - 1) : p[m] # Hash
    ELSE 0

\* Pattern p matches candidate c: up to its "#", or to its end when it has
\* none, each segment is "+" or the candidate's segment at that position; a
\* pattern without "#" is as long as the candidate, and the segments before a
\* "#" all have a candidate segment.
Matches(p, c) ==
    IF HashAt(p) > 0
    THEN /\ Len(c) >= HashAt(p) - 1
         /\ \A k \in 1..(HashAt(p) - 1) : p[k] = Plus \/ p[k] = c[k]
    ELSE /\ Len(p) = Len(c)
         /\ \A k \in 1..Len(p) : p[k] = Plus \/ p[k] = c[k]

\* The segments of candidate c that the "#" of pattern p absorbs.
Absorbed(p, c) ==
    IF HashAt(p) > 0 THEN SubSeq(c, HashAt(p), Len(c)) ELSE <<>>

\* Some route of connection i's table matches the topic name.
SomeRouteMatches(i, topic_name) ==
    \E r \in 1..Len(conf.routes[i + 1]) :
        Matches(conf.routes[i + 1][r].source_topic.path, Split(topic_name))

\* C12: in a turn of its loop, a Listener adds exactly one entry to the
\* queue when the notification is a Publish whose topic some route of its
\* table matches, and leaves the queue unchanged for any other notification
\* and for a Publish that no route matches.
C12_EnqueueIffRouted ==
    [][\A i \in ClientIds(conf) :
          (ListenerReady(i) /\ (rcvd'[i] # rcvd[i] \/ lst'[i] # lst[i])) =>
              IF /\ NextNotif(i).kind = "Publish"
                 /\ SomeRouteMatches(i, NextNotif(i).topic_name)
              THEN /\ Len(queue') = Len(queue) + 1
                   /\ SubSeq(queue', 1, Len(queue)) = queue
                   /\ queue'[Len(queue')].src = i
                   /\ queue'[Len(queue')].seq = Len(rcvd'[i])
              ELSE queue' = queue]_vars

\* The destinations a routing table owes for a topic (a path): for each
\* route in table order whose pattern matches, its destinations in their
\* order, each topic followed by the segments the pattern's "#" absorbed.
RECURSIVE ExpectedDests(_, _)
ExpectedDests(routes, c) ==
    IF routes = <<>> THEN <<>>
    ELSE (IF Matches(Head(routes).source_topic.path, c)
          THEN [k \in 1..Len(Head(routes).dests) |->
                   [topic     |-> [path |-> Head(routes).dests[k].topic.path
                                              \o Absorbed(Head(routes).source_topic.path, c)],
                    client_id |-> Head(routes).dests[k].client_id,
                    qos       |-> Head(routes).dests[k].qos]]
          ELSE <<>>)
         \o ExpectedDests(Tail(routes), c)

\* Every Listener thread has ended, its stream over.
AllListenersEnded == \A i \in ClientIds(conf) : lst[i] = "ended"

\* C17: Bridge::start never returns and the Emitter loop never ends: while
\* the main thread runs Emitters::run a Sender of the channel is alive, also
\* with every Listener ended, so that with the queue empty the Emitter waits
\* and cannot take the end of the channel; no request is ever left in the
\* queue by a return of Emitters::run.
C17_EmitterNeverReturns ==
    /\ mpc # "returned"
    /\ mpc = "emit" => SendersAlive >= 1
    /\ (mpc = "emit" /\ epc = "recv" /\ queue = <<>>) => ~ENABLED EmitterRecv

\* C17 witness: every Listener has ended, a request was dequeued and
\* published before, and the Emitter waits on the empty queue.
C17_Witness ==
    /\ AllListenersEnded
    /\ mpc = "emit"
    /\ epc = "recv"
    /\ queue = <<>>
    /\ calls # <<>>

\* C19: a message received on connection i is routed against the table of
\* connection i alone: the request its Listener enqueues holds the
\* destinations that conf.routes[i] owes for the topic, none from a route of
\* another connection; and no step changes the routing tables.
C19_RoutedByOwnTable ==
    [][/\ conf' = conf
       /\ \A i \in ClientIds(conf) :
             (rcvd'[i] # rcvd[i] /\ queue' # queue) =>
                 /\ queue'[Len(queue')].src = i
                 /\ queue'[Len(queue')].destinations =
                       ExpectedDests(conf.routes[i + 1], Split(NextNotif(i).topic_name))]_vars

\* C19 witness: two connections with different tables have each forwarded a
\* message of the same topic, with different destinations.
C19_Witness ==
    \E k, m \in 1..Len(queue) :
        /\ queue[k].src # queue[m].src
        /\ rcvd[queue[k].src][queue[k].seq].topic_name
              = rcvd[queue[m].src][queue[m].seq].topic_name
        /\ queue[k].destinations # queue[m].destinations


\* ------------------------------------ claims on the matcher and router

\* The call made is accepts(p, c) and it is over.
AcceptsReturned == call.fn = "accepts" /\ ret # NotReturned

\* The call made is route_packet and it is over.
RoutePacketReturned == call.fn = "route_packet" /\ ret # NotReturned

\* The pattern's segment k is "+" or the candidate's segment k.
SegAccepted(p, c, k) == p[k] = Plus \/ (k <= Len(c) /\ p[k] = c[k])

\* C13: routing is fan-out: the destinations of the ForwardRequest that
\* route_packet produces are the concatenation, in table order, of the
\* destinations (each list in its order) of every route whose pattern
\* matches the inbound topic; and when it produces none, no route matches.
C13_FanOut ==
    RoutePacketReturned =>
        /\ ret.kind = "Some" =>
              /\ ret.forward.destinations
                    = ExpectedDests(call.routes, Split(call.topic_name))
              /\ ret.forward.destinations # <<>>
              /\ ret.forward.payload = call.payload
        /\ ret.kind = "None" =>
              ExpectedDests(call.routes, Split(call.topic_name)) = <<>>

\* C13 witness: two routes of a table match the topic, and the request
\* carries the destinations of the first, then those of the second.
C13_Witness ==
    /\ RoutePacketReturned
    /\ ret.kind = "Some"
    /\ Len(call.routes) = 2
    /\ \A r \in 1..2 :
          Matches(call.routes[r].source_topic.path, Split(call.topic_name))
    /\ call.routes[1].dests # call.routes[2].dests
    /\ Len(ret.forward.destinations) = 3

\* The destination d resolved for the candidate c through a pattern p.
Resolved(d, p, c) ==
    [topic     |-> [path |-> d.topic.path \o Absorbed(p, c)],
     client_id |-> d.client_id,
     qos       |-> d.qos]

\* C14: every destination of a produced request is a configured destination
\* of a matching route, its topic followed by the segments the pattern's "#"
\* absorbed, its client id and QoS copied; without "#" in the pattern the
\* topic is the configured one unchanged. "a/#" to "b/out" resolves "a/x/y"
\* to "b/out/x/y".
C14_ResolvedTopic ==
    (RoutePacketReturned /\ ret.kind = "Some") =>
        LET c == Split(call.topic_name)
            out == ret.forward.destinations
        IN  /\ \A k \in 1..Len(out) :
                  \E r \in 1..Len(call.routes) :
                      \E j \in 1..Len(call.routes[r].dests) :
                          LET p == call.routes[r].source_topic.path
                              d == call.routes[r].dests[j]
                          IN  /\ Matches(p, c)
                              /\ out[k] = Resolved(d, p, c)
                              /\ out[k].client_id = d.client_id
                              /\ out[k].qos = d.qos
                              /\ HashAt(p) = 0 => out[k].topic = d.topic
            /\ Len(call.routes) = 1 =>
                  out = [j \in 1..Len(call.routes[1].dests) |->
                            Resolved(call.routes[1].dests[j],
                                     call.routes[1].source_topic.path, c)]
            /\ (/\ Len(call.routes) = 1
                /\ call.routes[1].source_topic = TopicFrom(<<"a", "/", "#">>)
                /\ call.routes[1].dests[1].topic
                      = TopicFrom(<<"b", "/", "o", "u", "t">>)
                /\ call.topic_name = <<"a", "/", "x", "/", "y">>)
               => TopicToString(out[1].topic)
                     = <<"b", "/", "o", "u", "t", "/", "x", "/", "y">>

\* C14 witness: "a/x/y" was resolved through "a/#" to "b/out/x/y".
C14_Witness ==
    /\ RoutePacketReturned
    /\ ret.kind = "Some"
    /\ call.topic_name = <<"a", "/", "x", "/", "y">>
    /\ Len(ret.forward.destinations) = 1
    /\ TopicToString(ret.forward.destinations[1].topic)
          = <<"b", "/", "o", "u", "t", "/", "x", "/", "y">>
    /\ ret.forward.destinations[1].client_id = 1
    /\ ret.forward.destinations[1].qos = "AtLeastOnce"

\* C15: a pattern ends in "#" at its last position and each earlier segment
\* is "+" or the candidate's segment at that position: accepts returns Match
\* with the candidate's segments from the position of "#" on, none when the
\* candidate ends before it.
C15_TrailingHash ==
    (/\ AcceptsReturned
     /\ HashAt(call.self.path) = Len(call.self.path)
     /\ \A k \in 1..(Len(call.self.path) - 1) :
           SegAccepted(call.self.path, call.other.path, k))
    => ret = Match(SubSeq(call.other.path, Len(call.self.path),
                          Len(call.other.path)))

\* The path has no wildcard segment.
NoWildcard(path) == \A k \in 1..Len(path) : path[k] # Plus /\ path[k] # Hash

\* C16: for a pattern and a candidate without wildcard segments, of any
\* lengths, accepts returns Match with no suffix when the two are equal and
\* Mismatch otherwise.
C16_LiteralEquality ==
    (/\ AcceptsReturned
     /\ NoWildcard(call.self.path)
     /\ NoWildcard(call.other.path))
    => ret = IF call.self.path = call.other.path THEN Match(<<>>) ELSE Mismatch

\* C18: for a pattern without "#" and a candidate of the same length,
\* accepts returns Match with no suffix when every segment of the pattern
\* other than "+" is the candidate's segment at that position, and Mismatch
\* otherwise; "+" accepts any segment, the empty one too.
C18_SingleLevel ==
    (/\ AcceptsReturned
     /\ HashAt(call.self.path) = 0
     /\ Len(call.self.path) = Len(call.other.path))
    => /\ ret = IF \A k \in 1..Len(call.self.path) :
                      \/ call.self.path[k] = Plus
                      \/ call.self.path[k] = call.other.path[k]
                THEN Match(<<>>)
                ELSE Mismatch
       /\ (/\ call.self = TopicFrom(<<"a", "/", "+", "/", "c">>)
           /\ call.other = TopicFrom(<<"a", "/", "b", "/", "c">>))
          => ret = Match(<<>>)
       /\ (/\ call.self = TopicFrom(<<"a", "/", "+", "/", "c">>)
           /\ call.other = TopicFrom(<<"a", "/", "b", "/", "d">>))
          => ret = Mismatch

\* C18 witness: a "+" accepted an empty segment next to an equal literal.
C18_Witness ==
    /\ AcceptsReturned
    /\ HashAt(call.self.path) = 0
    /\ Len(call.self.path) = Len(call.other.path)
    /\ \E k \in 1..Len(call.self.path) :
          call.self.path[k] = Plus /\ call.other.path[k] = <<>>
    /\ \E k \in 1..Len(call.self.path) : call.self.path[k] = <<"a">>
    /\ ret = Match(<<>>)

\* C20: "#" stands before the last position of a pattern, each earlier
\* segment is accepted and the candidate reaches the position of "#":
\* accepts returns Match with the candidate's segments from that position on,
\* whatever the pattern holds after the "#". "a/#/z" matches "a/b/c" with
\* suffix b, c.
C20_InnerHash ==
    (/\ AcceptsReturned
     /\ HashAt(call.self.path) > 0
     /\ HashAt(call.self.path) < Len(call.self.path)
     /\ Len(call.other.path) >= HashAt(call.self.path) - 1
     /\ \A k \in 1..(HashAt(call.self.path) - 1) :
           SegAccepted(call.self.path, call.other.path, k))
    => /\ ret = Match(SubSeq(call.other.path, HashAt(call.self.path),
                             Len(call.other.path)))
       /\ (/\ call.self = TopicFrom(<<"a", "/", "#", "/", "z">>)
           /\ call.other = TopicFrom(<<"a", "/", "b", "/", "c">>))
          => ret = Match(<<<<"b">>, <<"c">>>>)

\* C20 witness: "a/#/z" was matched against "a/b/c".
C20_Witness ==
    /\ AcceptsReturned
    /\ call.self = TopicFrom(<<"a", "/", "#", "/", "z">>)
    /\ call.other = TopicFrom(<<"a", "/", "b", "/", "c">>)
    /\ ret = Match(<<<<"b">>, <<"c">>>>)

====
